---- MODULE Spec2Model ----
(***************************************************************************)
(* Model of the LWE-based homomorphic encryption engine of                 *)
(* src/encryption/he_lwe.py (class EnhancedLWEBasedFHE).                   *)
(*                                                                         *)
(* Vectors are sequences of integers (numpy arrays whose entries are       *)
(* integer valued, whether stored as int64 or float64), matrices are       *)
(* sequences of rows, a text is the sequence of its code points.           *)
(* np.random is the process-wide generator: its state is the variable rng, *)
(* every sampling call consumes it, and the seed is drawn from a bounded   *)
(* set.                                                                    *)
(***************************************************************************)
EXTENDS Integers, Sequences, FiniteSets, TLC

(***************************************************************************)
(* Parameters (PublicParams).  The defaults of the constructor are         *)
(* n = 256, q = 40961, t = 2, bootstrap_precision = 8; the model keeps     *)
(* t = 2 and takes a small prime q with q % 4 = 1 (as 40961) and           *)
(* q > 2^bootstrap_precision.                                              *)
(***************************************************************************)
n == 2
q == 13
t == 2
bootstrap_precision == 3
scale == q \div t

(***************************************************************************)
(* Bounds of the model.                                                    *)
(***************************************************************************)
NSeeds == 16        \* seeds of np.random
NoiseBound == 1     \* |round(normal(0, std_dev))| <= NoiseBound
MaxOps == 2         \* homomorphic calls between encrypt and decrypt

\* the texts given to encrypt: "", "H", "Hi" and one character above 255
Messages == { <<>>, <<72>>, <<72, 105>>, <<256>> }

\* the positions of the stream whose ciphertexts are passed to the operators
OperandIdx == {1, 2}

(***************************************************************************)
(* Arithmetic helpers.                                                     *)
(***************************************************************************)
RECURSIVE Pow2(_)
Pow2(k) == IF k = 0 THEN 1 ELSE 2 * Pow2(k - 1)

RECURSIVE FloorLog2(_)
FloorLog2(x) == IF x < 2 THEN 0 ELSE 1 + FloorLog2(x \div 2)

Abs(x) == IF x < 0 THEN -x ELSE x

RECURSIVE SumSeq(_)
SumSeq(v) == IF Len(v) = 0 THEN 0 ELSE Head(v) + SumSeq(Tail(v))

\* u @ s for two vectors of the same length
Dot(u, v) == SumSeq([k \in 1..Len(u) |-> u[k] * v[k]])

\* r @ A : vector times matrix
VecMat(r, A) == [j \in 1..n |-> SumSeq([i \in 1..n |-> r[i] * A[i][j]])]

\* Python round(a / b) for b > 0: nearest integer, ties to the even one
RoundDiv(a, b) ==
  LET f == a \div b
      r2 == 2 * (a - f * b)
  IN  IF r2 < b THEN f
      ELSE IF r2 > b THEN f + 1
      ELSE IF f % 2 = 0 THEN f ELSE f + 1

(***************************************************************************)
(* np.random: a multiplicative congruential stream.                        *)
(***************************************************************************)
RngNext(x) == (x * 75) % 65537

RECURSIVE Stream(_, _)
Stream(x, k) == IF k = 0 THEN <<>> ELSE <<RngNext(x)>> \o Stream(RngNext(x), k - 1)

\* np.random.randint(0, hi) from one raw sample
Randint(raw, hi) == raw % hi

\* round(np.random.normal(0, std_dev)) from one raw sample
NormalRound(raw) == (raw % (2 * NoiseBound + 1)) - NoiseBound

(***************************************************************************)
(* Key generation.                                                         *)
(***************************************************************************)
Bits == FloorLog2(q) + 1

KeygenDraws == n + n * n + n + n * Bits * 2 * n + n * 2 * n

NoKeys == [secret_key |-> <<>>, public_key |-> [A |-> <<>>, b |-> <<>>],
           eval_key |-> <<>>, bootstrap_key |-> <<>>]

\* _generate_evaluation_key: st is the stream, off the samples consumed before
generate_evaluation_key(secret_key, st, off) ==
  [i \in 1..n |-> [k \in 1..n |-> [j \in 1..Bits |->
      LET base == off + ((i - 1) * Bits + (j - 1)) * 2 * n
          random_vec == Randint(st[base + n + k], q)
      IN  (random_vec + Pow2(j - 1) * secret_key[i] * secret_key[k]) % q ]]]

\* _generate_bootstrap_key without the reduction mod q
generate_bootstrap_key_nomod(secret_key, st, off) ==
  [i \in 1..n |-> [k \in 1..n |->
      LET base == off + (i - 1) * 2 * n
          random_vec == Randint(st[base + n + k], q)
      IN  random_vec + scale * secret_key[i] * secret_key[k] ]]

\* _generate_bootstrap_key
generate_bootstrap_key(secret_key, st, off) ==
  [i \in 1..n |-> [k \in 1..n |->
      LET base == off + (i - 1) * 2 * n
          random_vec == Randint(st[base + n + k], q)
      IN  (random_vec + scale * secret_key[i] * secret_key[k]) % q ]]

\* generate_keys: the key bundle, the signed noise e and the generator state after
generate_keys(x) ==
  LET st == Stream(x, KeygenDraws)
      s == [k \in 1..n |-> Randint(st[k], 2)]
      A == [i \in 1..n |-> [j \in 1..n |-> Randint(st[n + (i - 1) * n + j], q)]]
      e_signed == [k \in 1..n |-> NormalRound(st[n + n * n + k])]
      e == [k \in 1..n |-> e_signed[k] % q]
      b == [i \in 1..n |-> (Dot(A[i], s) + e[i]) % q]
      off_eval == n + n * n + n
      off_boot == off_eval + n * Bits * 2 * n
  IN  [keys |-> [secret_key |-> s, public_key |-> [A |-> A, b |-> b],
                 eval_key |-> generate_evaluation_key(s, st, off_eval),
                 bootstrap_key |-> generate_bootstrap_key(s, st, off_boot)],
       e |-> e_signed,
       rng |-> st[KeygenDraws]]

(***************************************************************************)
(* Codec: format(ord(c), '08b'), int(byte, 2).                             *)
(***************************************************************************)
\* the binary digits of c, most significant first, without leading zeros
RECURSIVE Bin(_)
Bin(c) == IF c < 2 THEN <<c>> ELSE Bin(c \div 2) \o <<c % 2>>

\* Format08b with the digits least significant first
Format08b_lsb(c) == [k \in 1..8 |-> (c \div Pow2(k - 1)) % 2]

\* format(c, '08b'): zero-padded on the left up to a MINIMUM width of 8
Format08b(c) ==
  LET d == Bin(c)
  IN  IF Len(d) >= 8 THEN d ELSE [k \in 1..(8 - Len(d)) |-> 0] \o d

\* ''.join(format(ord(c), '08b') for c in message)
RECURSIVE ToBinary(_)
ToBinary(message) ==
  IF Len(message) = 0 THEN <<>>
  ELSE Format08b(Head(message)) \o ToBinary(Tail(message))

\* int(byte, 2)
RECURSIVE IntBase2(_)
IntBase2(byte) ==
  IF Len(byte) = 0 THEN 0
  ELSE 2 * IntBase2(SubSeq(byte, 1, Len(byte) - 1)) + byte[Len(byte)]

(***************************************************************************)
(* Results of a call: ok = FALSE is a raised exception.                    *)
(***************************************************************************)
Ok(v) == [ok |-> TRUE, val |-> v]
Raise == [ok |-> FALSE, val |-> <<>>]

(***************************************************************************)
(* encrypt                                                                 *)
(***************************************************************************)
EncryptDraws == 2 * n + 1

\* the ciphertext of one bit from the samples e1, e2 (already mod q) and r
encrypt_bit(bit, public_key, e1, e2, r) ==
  LET u == [j \in 1..n |-> (VecMat(r, public_key.A)[j] + e1[j]) % q]
      v == (Dot(r, public_key.b) + e2 + scale * bit) % q
  IN  u \o <<v>>

\* encrypt: the ciphertexts, the samples drawn for each bit (signed) and the
\* generator state after
encrypt(message, public_key, x) ==
  LET binary == ToBinary(message)
      st == Stream(x, Len(binary) * EncryptDraws)
      rand == [k \in 1..Len(binary) |->
                 LET base == (k - 1) * EncryptDraws
                 IN  [e1 |-> [j \in 1..n |-> NormalRound(st[base + j])],
                      e2 |-> NormalRound(st[base + n + 1]),
                      r  |-> [j \in 1..n |-> Randint(st[base + n + 1 + j], 2)]]]
  IN  [ciphertexts |-> [k \in 1..Len(binary) |->
                          encrypt_bit(binary[k], public_key,
                                      [j \in 1..n |-> rand[k].e1[j] % q],
                                      rand[k].e2 % q, rand[k].r)],
       rand |-> rand,
       rng |-> IF Len(binary) = 0 THEN x ELSE st[Len(binary) * EncryptDraws]]

(***************************************************************************)
(* decrypt                                                                 *)
(***************************************************************************)
\* decrypt_bit with int() in place of round()
decrypt_bit_trunc(ct, secret_key) ==
  LET u == SubSeq(ct, 1, Len(ct) - 1)
      v == ct[Len(ct)]
      noise == (v - Dot(u, secret_key)) % q
  IN  ((noise * t) \div q) % t

\* the loop body: the bit of one ciphertext of length n+1
decrypt_bit(ct, secret_key) ==
  LET u == SubSeq(ct, 1, Len(ct) - 1)
      v == ct[Len(ct)]
      noise == (v - Dot(u, secret_key)) % q
  IN  RoundDiv(noise * t, q) % t

\* DecodeBinary without the test len(byte) == 8
RECURSIVE DecodeBinary_partial(_)
DecodeBinary_partial(binary) ==
  IF Len(binary) = 0 THEN <<>>
  ELSE IF Len(binary) < 8 THEN <<IntBase2(binary)>>
  ELSE <<IntBase2(SubSeq(binary, 1, 8))>>
         \o DecodeBinary_partial(SubSeq(binary, 9, Len(binary)))

\* for i in range(0, len(binary), 8): complete bytes only
RECURSIVE DecodeBinary(_)
DecodeBinary(binary) ==
  IF Len(binary) = 0 THEN <<>>
  ELSE IF Len(binary) < 8 THEN <<>>
  ELSE <<IntBase2(SubSeq(binary, 1, 8))>> \o DecodeBinary(SubSeq(binary, 9, Len(binary)))

\* decrypt: u @ secret_key raises when a ciphertext has not n+1 entries
decrypt(cts, secret_key) ==
  IF \E k \in 1..Len(cts) : Len(cts[k]) # n + 1 THEN Raise
  ELSE Ok(DecodeBinary([k \in 1..Len(cts) |-> decrypt_bit(cts[k], secret_key)]))

(***************************************************************************)
(* Homomorphic operators and bootstrap.                                    *)
(***************************************************************************)
\* add_ciphertexts adding ct1 to itself
add_ciphertexts_ct1(ct1, ct2) == Ok([k \in 1..Len(ct1) |-> (ct1[k] + ct1[k]) % q])

\* add_ciphertexts subtracting ct2
add_ciphertexts_sub(ct1, ct2) ==
  IF Len(ct1) = Len(ct2)
    THEN Ok([k \in 1..Len(ct1) |-> (ct1[k] - ct2[k]) % q])
  ELSE IF Len(ct1) = 1
    THEN Ok([k \in 1..Len(ct2) |-> (ct1[1] - ct2[k]) % q])
  ELSE IF Len(ct2) = 1
    THEN Ok([k \in 1..Len(ct1) |-> (ct1[k] - ct2[1]) % q])
  ELSE Raise

\* add_ciphertexts: (ct1 + ct2) % q with numpy's broadcasting of shapes
add_ciphertexts(ct1, ct2) ==
  IF Len(ct1) = Len(ct2)
    THEN Ok([k \in 1..Len(ct1) |-> (ct1[k] + ct2[k]) % q])
  ELSE IF Len(ct1) = 1
    THEN Ok([k \in 1..Len(ct2) |-> (ct1[1] + ct2[k]) % q])
  ELSE IF Len(ct2) = 1
    THEN Ok([k \in 1..Len(ct1) |-> (ct1[k] + ct2[1]) % q])
  ELSE Raise

\* Decompose halving val before it takes the bit
RECURSIVE Decompose_shifted(_, _)
Decompose_shifted(val, bits) ==
  IF bits = 0 THEN <<>>
  ELSE <<(val \div 2) % 2>> \o Decompose_shifted(val \div 2, bits - 1)

\* the binary decomposition of one accumulator entry, least significant first
RECURSIVE Decompose(_, _)
Decompose(val, bits) ==
  IF bits = 0 THEN <<>> ELSE <<val % 2>> \o Decompose(val \div 2, bits - 1)

\* the key switching loop over the set bits (i, j), in the order of the code
RECURSIVE KeySwitchSum(_, _, _, _)
KeySwitchSum(decomp, eval_key, idx, result) ==
  IF idx > n * Bits THEN result
  ELSE LET i == ((idx - 1) \div Bits) + 1
           j == ((idx - 1) % Bits) + 1
       IN  KeySwitchSum(decomp, eval_key, idx + 1,
             IF decomp[i][j] = 1
               THEN [k \in 1..n |-> (result[k] + eval_key[i][k][j]) % q]
               ELSE result)

\* _key_switch
key_switch(acc, v_scaled, eval_key) ==
  LET decomp == [i \in 1..n |-> Decompose(acc[i], Bits)]
  IN  KeySwitchSum(decomp, eval_key, 1, [k \in 1..n |-> 0]) \o <<v_scaled>>

\* the accumulation loop of bootstrap
RECURSIVE Accumulate(_, _, _, _)
Accumulate(u_scaled, bootstrap_key, i, acc) ==
  IF i > n THEN acc
  ELSE Accumulate(u_scaled, bootstrap_key, i + 1,
         IF u_scaled[i] # 0
           THEN add_ciphertexts(acc,
                  [k \in 1..n |-> (bootstrap_key[i][k] * u_scaled[i]) % q]).val
           ELSE acc)

\* bootstrap: u_scaled[i] raises when the ciphertext has fewer than n+1 entries
bootstrap(ciphertext, ks) ==
  IF Len(ciphertext) < n + 1 THEN Raise
  ELSE
    LET u == SubSeq(ciphertext, 1, Len(ciphertext) - 1)
        v == ciphertext[Len(ciphertext)]
        scale_factor == Pow2(bootstrap_precision)
        u_scaled == [k \in 1..Len(u) |-> ((u[k] * scale_factor) \div q) % scale_factor]
        v_scaled == ((v * scale_factor) \div q) % scale_factor
        acc == Accumulate(u_scaled, ks.bootstrap_key, 1, [k \in 1..n |-> 0])
    IN  Ok(key_switch(acc, v_scaled, ks.eval_key))

\* TensorProduct of ct2 with ct1
TensorProduct_swapped(ct1, ct2) ==
  [idx \in 1..(Len(ct2) * Len(ct1)) |->
     (ct2[((idx - 1) \div Len(ct1)) + 1] * ct1[((idx - 1) % Len(ct1)) + 1]) % q]

\* (ct1.reshape(-1, 1) @ ct2.reshape(1, -1)).flatten() % q
TensorProduct(ct1, ct2) ==
  [idx \in 1..(Len(ct1) * Len(ct2)) |->
     (ct1[((idx - 1) \div Len(ct2)) + 1] * ct2[((idx - 1) % Len(ct2)) + 1]) % q]

\* multiply_ciphertexts returning the tensor product as it is
multiply_ciphertexts_raw(ct1, ct2, ks) == Ok(TensorProduct(ct1, ct2))

\* multiply_ciphertexts
multiply_ciphertexts(ct1, ct2, ks) == bootstrap(TensorProduct(ct1, ct2), ks)

(***************************************************************************)
(* What a call leaves in the objects it was handed.  The stores of the     *)
(* code go to arrays allocated in the call (ciphertexts, acc, decomp,      *)
(* result); the arithmetic on arguments (u * scale_factor, ct1 + ct2,      *)
(* ct1.reshape(..) @ ..) builds new arrays and val //= 2 rebinds a scalar. *)
(***************************************************************************)
\* encrypt: the public key after the call
encrypt_frame(message, public_key) == public_key

\* decrypt: the ciphertexts and the secret key after the call
decrypt_frame(cts, secret_key) == [args |-> cts, secret_key |-> secret_key]

\* add_ciphertexts: the two operands after the call
add_ciphertexts_frame(ct1, ct2) == <<ct1, ct2>>

\* bootstrap scaling the view u = ciphertext[:-1] in place
bootstrap_frame_inplace(ciphertext, ks) ==
  [args |-> << [k \in 1..Len(ciphertext) |->
                  IF k < Len(ciphertext)
                    THEN ((ciphertext[k] * Pow2(bootstrap_precision)) \div q)
                           % Pow2(bootstrap_precision)
                    ELSE ciphertext[k]] >>,
   keys |-> ks]

\* bootstrap and _key_switch: the ciphertext and the key bundle after the call
bootstrap_frame(ciphertext, ks) == [args |-> <<ciphertext>>, keys |-> ks]

\* multiply_ciphertexts: the operands and the key bundle after the call; the
\* tensor product handed to bootstrap is a new array
multiply_ciphertexts_frame(ct1, ct2, ks) ==
  [args |-> <<ct1, ct2>>, keys |-> bootstrap_frame(TensorProduct(ct1, ct2), ks).keys]

\* the stream after a call that was handed the ciphertexts at the positions
\* idx (0: not of the stream) and left them as after
RECURSIVE WriteBack(_, _, _)
WriteBack(cts, idx, after) ==
  IF Len(idx) = 0 THEN cts
  ELSE WriteBack(IF Head(idx) > 0 /\ Len(Head(after)) = Len(cts[Head(idx)])
                   THEN [cts EXCEPT ![Head(idx)] = Head(after)]
                   ELSE cts,
                 Tail(idx), Tail(after))

(***************************************************************************)
(* State.  The class keeps only its parameters; the state is np.random and *)
(* what the caller holds.  rng: np.random; keys: the KeyBundle; message,   *)
(* ciphertexts: the text given to encrypt and the stream it returned; res: *)
(* the ciphertext the caller holds from the last homomorphic call; call,   *)
(* ret: the last call with its arguments and what it returned; pc: where   *)
(* the caller is; nops: homomorphic calls made.  key_e, enc_rand and the   *)
(* bit fields record the samples drawn and the plaintext bits, which the   *)
(* program itself does not keep.                                           *)
(***************************************************************************)
VARIABLES rng, keys, key_e, message, ciphertexts, enc_rand,
          res, call, ret, pc, nops, sig

\* sig is the ElGamalSignature object of src/signature/elgamal_signature.py
\* with its caller, modelled at the end of the module
vars == <<rng, keys, key_e, message, ciphertexts, enc_rand,
          res, call, ret, pc, nops, sig>>

NoSig == [pc |-> "new", p |-> 0, g |-> 0, private_key |-> 0, public_key |-> 0,
          digest |-> <<0, 0>>, message |-> 0, k |-> 0, signature |-> <<0, 0>>,
          vmessage |-> 0, valid |-> FALSE]

NoCall == [op |-> "none", args |-> <<>>, bits |-> <<>>, idx |-> <<>>, after |-> <<>>]
NoRes == [ct |-> <<>>, bit |-> 0, live |-> FALSE]

Init ==
  /\ rng \in 1..NSeeds
  /\ keys = NoKeys
  /\ key_e = <<>>
  /\ message = <<>>
  /\ ciphertexts = <<>>
  /\ enc_rand = <<>>
  /\ res = NoRes
  /\ call = NoCall
  /\ ret = Ok(<<>>)
  /\ pc = "new"
  /\ nops = 0
  /\ sig = NoSig

\* keys = fhe.generate_keys()
GenerateKeys ==
  /\ pc = "new"
  /\ LET g == generate_keys(rng)
     IN  /\ keys' = g.keys
         /\ key_e' = g.e
         /\ rng' = g.rng
  /\ call' = [op |-> "generate_keys", args |-> <<>>, bits |-> <<>>, idx |-> <<>>,
              after |-> <<>>]
  /\ ret' = Ok(<<>>)
  /\ pc' = "keyed"
  /\ UNCHANGED <<message, ciphertexts, enc_rand, res, nops, sig>>

\* ciphertexts = fhe.encrypt(message, keys.public_key)
Encrypt ==
  /\ pc = "keyed"
  /\ \E m \in Messages :
       LET c == encrypt(m, keys.public_key, rng)
       IN  /\ message' = m
           /\ ciphertexts' = c.ciphertexts
           /\ enc_rand' = c.rand
           /\ rng' = c.rng
           /\ ret' = Ok(c.ciphertexts)
           /\ keys' = [keys EXCEPT !.public_key = encrypt_frame(m, keys.public_key)]
  /\ call' = [op |-> "encrypt", args |-> <<>>, bits |-> <<>>, idx |-> <<>>,
              after |-> <<>>]
  /\ pc' = "encrypted"
  /\ UNCHANGED <<key_e, res, nops, sig>>

\* the ciphertexts the caller passes to the operators, each with the bit it
\* stands for and its position in the stream (0: the result the caller holds)
Operands ==
  { [ct |-> ciphertexts[i], bit |-> ToBinary(message)[i], idx |-> i] :
      i \in OperandIdx \cap (1..Len(ciphertexts)) }
  \cup (IF res.live THEN { [ct |-> res.ct, bit |-> res.bit, idx |-> 0] } ELSE {})

\* a ciphertext and the parts the code splits it into: ct, ct[:-1], ct[-1:]
Parts(ct) ==
  IF Len(ct) = 0 THEN {ct}
  ELSE {ct, SubSeq(ct, 1, Len(ct) - 1), SubSeq(ct, Len(ct), Len(ct))}

\* fhe.decrypt(...) on a prefix of the stream or on one held ciphertext; the
\* caller is done with its ciphertexts afterwards
Decrypt ==
  /\ pc = "encrypted"
  /\ \E cts \in { SubSeq(ciphertexts, 1, k) : k \in 0..Len(ciphertexts) }
               \cup { <<x.ct>> : x \in Operands } :
       LET f == decrypt_frame(cts, keys.secret_key)
       IN  /\ call' = [op |-> "decrypt", args |-> cts, bits |-> <<>>, idx |-> <<>>,
                       after |-> f.args]
           /\ ret' = decrypt(cts, keys.secret_key)
           /\ keys' = [keys EXCEPT !.secret_key = f.secret_key]
           /\ ciphertexts' = IF cts = SubSeq(ciphertexts, 1, Len(cts))
                               THEN f.args \o SubSeq(ciphertexts, Len(cts) + 1,
                                                     Len(ciphertexts))
                               ELSE ciphertexts
  /\ pc' = "done"
  /\ res' = NoRes
  /\ nops' = 0
  /\ UNCHANGED <<rng, key_e, message, enc_rand, sig>>

\* what the caller keeps of a homomorphic call: the result, unless it raised
Held(r, bit) == IF r.ok THEN [ct |-> r.val, bit |-> bit, live |-> TRUE] ELSE res

\* res = fhe.add_ciphertexts(ct1, ct2)
AddCiphertexts ==
  /\ pc = "encrypted"
  /\ nops < MaxOps
  /\ \E x \in Operands, y \in Operands :
     \E ct2 \in Parts(y.ct) :
       LET r == add_ciphertexts(x.ct, ct2)
           f == add_ciphertexts_frame(x.ct, ct2)
       IN  /\ call' = [op |-> "add_ciphertexts", args |-> <<x.ct, ct2>>,
                       bits |-> <<x.bit, y.bit>>, idx |-> <<x.idx, y.idx>>,
                       after |-> f]
           /\ ret' = r
           /\ res' = Held(r, (x.bit + y.bit) % t)
           /\ ciphertexts' = WriteBack(ciphertexts, <<x.idx, y.idx>>, f)
  /\ nops' = nops + 1
  /\ UNCHANGED <<rng, keys, key_e, message, enc_rand, pc, sig>>

\* res = fhe.multiply_ciphertexts(ct1, ct2, keys)
MultiplyCiphertexts ==
  /\ pc = "encrypted"
  /\ nops < MaxOps
  /\ \E x \in Operands, y \in Operands :
       LET r == multiply_ciphertexts(x.ct, y.ct, keys)
           f == multiply_ciphertexts_frame(x.ct, y.ct, keys)
       IN  /\ call' = [op |-> "multiply_ciphertexts", args |-> <<x.ct, y.ct>>,
                       bits |-> <<x.bit, y.bit>>, idx |-> <<x.idx, y.idx>>,
                       after |-> f.args]
           /\ ret' = r
           /\ res' = Held(r, x.bit * y.bit)
           /\ keys' = f.keys
           /\ ciphertexts' = WriteBack(ciphertexts, <<x.idx, y.idx>>, f.args)
  /\ nops' = nops + 1
  /\ UNCHANGED <<rng, key_e, message, enc_rand, pc, sig>>

\* res = fhe.bootstrap(ct, keys)
Bootstrap ==
  /\ pc = "encrypted"
  /\ nops < MaxOps
  /\ \E x \in Operands :
       LET r == bootstrap(x.ct, keys)
           f == bootstrap_frame(x.ct, keys)
       IN  /\ call' = [op |-> "bootstrap", args |-> <<x.ct>>, bits |-> <<x.bit>>,
                       idx |-> <<x.idx>>, after |-> f.args]
           /\ ret' = r
           /\ res' = Held(r, x.bit)
           /\ keys' = f.keys
           /\ ciphertexts' = WriteBack(ciphertexts, <<x.idx>>, f.args)
  /\ nops' = nops + 1
  /\ UNCHANGED <<rng, key_e, message, enc_rand, pc, sig>>

Next ==
  \/ GenerateKeys
  \/ Encrypt
  \/ Decrypt
  \/ AddCiphertexts
  \/ MultiplyCiphertexts
  \/ Bootstrap

Spec == Init /\ [][Next]_vars
(***************************************************************************)
(* ElGamal signature, src/signature/elgamal_signature.py.  sig holds the   *)
(* fields of the ElGamalSignature object (p, g, private_key, public_key),  *)
(* the sha256 digests of the texts (digest[m], a fixed function the model  *)
(* draws from a bounded set), the message signed with the ephemeral key k  *)
(* and the signature returned, and the message verified with the result.   *)
(***************************************************************************)
key_size == 4       \* ElGamalSignature(key_size), 2048 in demo
MaxDigest == 12     \* int(sha256(message).hexdigest(), 16) <= MaxDigest

\* the texts signed and verified: message and tampered of demo
SigMessages == {1, 2}

\* pow(b, e, m) for e >= 0
RECURSIVE ModExp(_, _, _)
ModExp(b, e, m) == IF e = 0 THEN 1 % m ELSE (b * ModExp(b, e - 1, m)) % m

\* sympy.gcd
RECURSIVE Gcd(_, _)
Gcd(a, b) == IF b = 0 THEN a ELSE Gcd(b, a % b)

IsPrime(x) == x > 1 /\ \A d \in 2..(x - 1) : x % d # 0

\* the values sympy.randprime(2**(key_size-1), 2**key_size) can return
RandPrimes == { x \in Pow2(key_size - 1)..(Pow2(key_size) - 1) : IsPrime(x) }

\* _generate_keys: g = 2; while pow(g, (p-1)//2, p) == 1: g += 1
RECURSIVE FindGenerator(_, _)
FindGenerator(g, p) ==
  IF ModExp(g, (p - 1) \div 2, p) = 1 THEN FindGenerator(g + 1, p) ELSE g

\* pow(k, -1, p - 1), for k coprime to p - 1
ModInverse(k, m) == CHOOSE x \in 0..(m - 1) : (x * k) % m = 1 % m

\* _hash_message
hash_message(m) == sig.digest[m]

\* sign, with the ephemeral key k the loop ended on
sign(m, k) ==
  LET h == hash_message(m)
      r == ModExp(sig.g, k, sig.p)
      k_inv == ModInverse(k, sig.p - 1)
      s == (k_inv * (h - sig.private_key * r)) % (sig.p - 1)
  IN  <<r, s>>

\* verify
verify(m, signature) ==
  LET r == signature[1]
      s == signature[2]
  IN  IF ~(0 < r /\ r < sig.p /\ 0 < s /\ s < sig.p - 1) THEN FALSE
      ELSE LET h == hash_message(m)
               left == ModExp(sig.g, h, sig.p)
               right == (ModExp(sig.public_key, r, sig.p) * ModExp(r, s, sig.p)) % sig.p
           IN  left = right

lweVars == <<rng, keys, key_e, message, ciphertexts, enc_rand, res, call, ret, pc, nops>>

SigInit ==
  /\ rng = 1
  /\ keys = NoKeys
  /\ key_e = <<>>
  /\ message = <<>>
  /\ ciphertexts = <<>>
  /\ enc_rand = <<>>
  /\ res = NoRes
  /\ call = NoCall
  /\ ret = Ok(<<>>)
  /\ pc = "new"
  /\ nops = 0
  /\ \E d \in [SigMessages -> 0..MaxDigest] : sig = [NoSig EXCEPT !.digest = <<d[1], d[2]>>]

\* elgamal = ElGamalSignature(key_size)
SigGenerateKeys ==
  /\ sig.pc = "new"
  /\ \E p \in RandPrimes : \E x \in 1..(p - 2) :
       LET g == FindGenerator(2, p)
       IN  sig' = [sig EXCEPT !.pc = "keyed", !.p = p, !.g = g, !.private_key = x,
                              !.public_key = ModExp(g, x, p)]
  /\ UNCHANGED lweVars

\* signature = elgamal.sign(message)
Sign ==
  /\ sig.pc = "keyed"
  /\ \E m \in SigMessages :
     \E k \in { c \in 1..(sig.p - 2) : Gcd(c, sig.p - 1) = 1 } :
       sig' = [sig EXCEPT !.pc = "signed", !.message = m, !.k = k,
                          !.signature = sign(m, k)]
  /\ UNCHANGED lweVars

\* is_valid = elgamal.verify(message, signature), message the signed text or
\* another
Verify ==
  /\ sig.pc = "signed"
  /\ \E m \in SigMessages :
       sig' = [sig EXCEPT !.pc = "verified", !.vmessage = m,
                          !.valid = verify(m, sig.signature)]
  /\ UNCHANGED lweVars

SigNext ==
  \/ SigGenerateKeys
  \/ Sign
  \/ Verify

SpecSig == SigInit /\ [][SigNext]_vars

(***************************************************************************)
(* Quantities the properties speak of.                                     *)
(***************************************************************************)
\* the noise accumulated in the ciphertext of bit k of the stream:
\* r*e + e2 - e1*s, over the integers
AccNoise(k) ==
  Dot(enc_rand[k].r, key_e) + enc_rand[k].e2 - Dot(enc_rand[k].e1, keys.secret_key)

\* bit number pos (0 = least significant) of the code point c
BitOf(c, pos) == (c \div Pow2(pos)) % 2

\* the bit the spec assigns to ciphertext number k0 (0-based) of the stream
StreamBit(k0) == BitOf(message[(k0 \div 8) + 1], 7 - (k0 % 8))

EightBit == \A c \in 1..Len(message) : message[c] <= 255

\* the last call decrypted the whole stream returned by encrypt
FullDecrypt == pc = "done" /\ call.op = "decrypt" /\ call.args = ciphertexts

\* C1 as stated: decrypt(encrypt(M)) = M when every bit's accumulated noise is
\* below q/(2t) in magnitude
C1_Original ==
  (FullDecrypt /\ EightBit
     /\ \A k \in 1..Len(ciphertexts) : 2 * t * Abs(AccNoise(k)) < q)
  => (ret.ok /\ ret.val = message)

\* C1 amended: decrypt(encrypt(M)) = M when every bit's accumulated noise is
\* below q/(2t) - 1/2 in magnitude
C1_RoundTrip ==
  (FullDecrypt /\ EightBit
     /\ \A k \in 1..Len(ciphertexts) : 2 * t * Abs(AccNoise(k)) + t < q)
  => (ret.ok /\ ret.val = message)

\* "Hi" came back from a stream in which a 1 bit carries the largest noise the
\* amended bound admits
C1_Witness ==
  /\ FullDecrypt /\ message = <<72, 105>> /\ ret.ok /\ ret.val = message
  /\ \A k \in 1..Len(ciphertexts) : 2 * t * Abs(AccNoise(k)) + t < q
  /\ \E k \in 1..Len(ciphertexts) :
       StreamBit(k - 1) = 1 /\ AccNoise(k) < 0 /\ 2 * t * (Abs(AccNoise(k)) + 1) + t >= q

\* C6: encrypt of an 8-bit text returns 8*len(M) ciphertexts of length n+1,
\* number k (0-based) encrypting bit 7 - k mod 8 of character floor(k/8)
C6_EncryptLayout ==
  (call.op = "encrypt" /\ EightBit) =>
    /\ ret.ok
    /\ Len(ret.val) = 8 * Len(message)
    /\ \A k \in 1..Len(ret.val) :
         LET ct == ret.val[k]
         IN  /\ Len(ct) = n + 1
             /\ (ct[n + 1] - Dot(SubSeq(ct, 1, n), keys.secret_key) - AccNoise(k)) % q
                  = (scale * StreamBit(k - 1)) % q

\* encrypt("Hi") returned 16 ciphertexts
C6_Witness ==
  call.op = "encrypt" /\ message = <<72, 105>> /\ Len(ret.val) = 16

\* C7: decrypt of k ciphertexts of length n+1 returns a text of floor(k/8)
\* characters, character c made of recovered bits 8c .. 8c+7, most significant
\* first
C7_DecryptLayout ==
  (call.op = "decrypt" /\ \A k \in 1..Len(call.args) : Len(call.args[k]) = n + 1) =>
    /\ ret.ok
    /\ Len(ret.val) = Len(call.args) \div 8
    /\ \A c \in 1..Len(ret.val) :
         ret.val[c] = SumSeq([j \in 1..8 |->
                         decrypt_bit(call.args[8 * (c - 1) + j], keys.secret_key)
                           * Pow2(8 - j)])

\* decrypt got 8 ciphertexts and some more, and returned one character
C7_Witness ==
  /\ call.op = "decrypt" /\ Len(call.args) > 8 /\ Len(call.args) < 16
  /\ ret.ok /\ Len(ret.val) = 1

\* the representative of x mod q nearest to zero
Centered(x) == IF 2 * (x % q) > q THEN (x % q) - q ELSE x % q

\* the noise of the ciphertext [u|v] taken as an encryption of bit m:
\* the centered representative of (v - u*s - scale*m) mod q
NoiseOf(ct, m) ==
  Centered(ct[Len(ct)] - Dot(SubSeq(ct, 1, Len(ct) - 1), keys.secret_key) - scale * m)

\* the last call added two ciphertexts of the stream, as encrypt returned them
FreshAdd ==
  /\ call.op = "add_ciphertexts"
  /\ call.idx[1] > 0 /\ call.idx[2] > 0
  /\ Len(call.args[2]) = n + 1

\* the sum of the noise magnitudes of the two ciphertexts of the last call
NoiseSum == Abs(AccNoise(call.idx[1])) + Abs(AccNoise(call.idx[2]))

\* C2 as stated: with the noise magnitudes summing to less than q/(2t),
\* add(c0, c1) decrypts to 1 and add(c0, c0) decrypts to 0
C2_Original ==
  (FreshAdd /\ 2 * t * NoiseSum < q) =>
    /\ (call.bits[1] + call.bits[2] = 1
          => ret.ok /\ decrypt_bit(ret.val, keys.secret_key) = 1)
    /\ (call.bits = <<0, 0>> /\ call.idx[1] = call.idx[2]
          => ret.ok /\ decrypt_bit(ret.val, keys.secret_key) = 0)

\* C2 amended: add(c0, c1) decrypts to 1 when the noise magnitudes sum to less
\* than q/(2t) - 1/2, and add(c0, c0) decrypts to 0 when they sum to less than
\* q/(2t)
C2_AddHomomorphic ==
  FreshAdd =>
    /\ (call.bits[1] + call.bits[2] = 1 /\ 2 * t * NoiseSum + t < q
          => ret.ok /\ decrypt_bit(ret.val, keys.secret_key) = 1)
    /\ (call.bits = <<0, 0>> /\ call.idx[1] = call.idx[2] /\ 2 * t * NoiseSum < q
          => ret.ok /\ decrypt_bit(ret.val, keys.secret_key) = 0)

\* add(c0, c1) of two noisy ciphertexts, the noise as large as the amended
\* bound admits, decrypted to 1
C2_Witness ==
  /\ FreshAdd /\ call.bits = <<0, 1>>
  /\ AccNoise(call.idx[1]) # 0 /\ AccNoise(call.idx[2]) # 0
  /\ 2 * t * NoiseSum + t < q /\ 2 * t * (NoiseSum + 1) + t >= q
  /\ ret.ok /\ decrypt_bit(ret.val, keys.secret_key) = 1

\* C3 as stated: multiply(c1, c1) of a fresh encryption c1 of bit 1 decrypts
\* to 1
C3_Original ==
  (/\ call.op = "multiply_ciphertexts"
   /\ call.idx[1] > 0 /\ call.idx[1] = call.idx[2]
   /\ call.bits[1] = 1)
  => (ret.ok /\ decrypt_bit(ret.val, keys.secret_key) = 1)

\* C4 as stated: bootstrap of a ciphertext of length n+1 that decrypts to m
\* with noise below q/(2t) returns a ciphertext that decrypts to m
C4_Original ==
  (/\ call.op = "bootstrap"
   /\ Len(call.args[1]) = n + 1
   /\ 2 * t * Abs(NoiseOf(call.args[1], decrypt_bit(call.args[1], keys.secret_key))) < q)
  => (/\ ret.ok
      /\ decrypt_bit(ret.val, keys.secret_key)
           = decrypt_bit(call.args[1], keys.secret_key))

InRange(x) == x \in 0..(q - 1)
VecInRange(v) == \A k \in 1..Len(v) : InRange(v[k])

\* C5: with q > 2^bootstrap_precision, every entry of A, b, eval_key and
\* bootstrap_key and of every ciphertext produced lies in [0, q)
C5_CanonicalRange ==
  q > Pow2(bootstrap_precision) =>
    /\ \A i \in 1..Len(keys.public_key.A) : VecInRange(keys.public_key.A[i])
    /\ VecInRange(keys.public_key.b)
    /\ \A i \in 1..Len(keys.eval_key) : \A k \in 1..Len(keys.eval_key[i]) :
         VecInRange(keys.eval_key[i][k])
    /\ \A i \in 1..Len(keys.bootstrap_key) : VecInRange(keys.bootstrap_key[i])
    /\ \A k \in 1..Len(ciphertexts) : VecInRange(ciphertexts[k])
    /\ VecInRange(res.ct)
    /\ (call.op \in {"add_ciphertexts", "multiply_ciphertexts", "bootstrap"} /\ ret.ok
          => VecInRange(ret.val))

\* a bootstrap of the result of an earlier homomorphic call returned
C5_Witness ==
  /\ call.op = "bootstrap" /\ call.idx = <<0>> /\ ret.ok /\ nops >= 2
  /\ \E k \in 1..n : ret.val[k] # 0

\* the last call added two ciphertexts of length n+1
FullAdd ==
  /\ call.op = "add_ciphertexts"
  /\ Len(call.args[1]) = n + 1 /\ Len(call.args[2]) = n + 1

\* C8 as stated: the noise magnitude of add(c1, c2), relative to the bit
\* (m1 + m2) mod t, does not exceed the sum of the noise magnitudes of c1, c2
C8_Original ==
  FullAdd =>
    LET m1 == call.bits[1]
        m2 == call.bits[2]
    IN  Abs(NoiseOf(ret.val, (m1 + m2) % t))
          <= Abs(NoiseOf(call.args[1], m1)) + Abs(NoiseOf(call.args[2], m2))

\* C8 amended: the noise magnitude of add(c1, c2) does not exceed the sum of
\* the noise magnitudes of c1 and c2, plus q - t*scale when m1 + m2 >= t
C8_NoiseGrowth ==
  FullAdd =>
    LET m1 == call.bits[1]
        m2 == call.bits[2]
    IN  Abs(NoiseOf(ret.val, (m1 + m2) % t))
          <= Abs(NoiseOf(call.args[1], m1)) + Abs(NoiseOf(call.args[2], m2))
             + (q - t * scale) * ((m1 + m2) \div t)

\* two encryptions of bit 1 were added and the noise of the sum is larger
\* than the noises of the two together
C8_Witness ==
  /\ FullAdd /\ call.bits = <<1, 1>> /\ ret.ok
  /\ Abs(NoiseOf(ret.val, 0))
       = Abs(NoiseOf(call.args[1], 1)) + Abs(NoiseOf(call.args[2], 1)) + (q - t * scale)

\* C9 as stated: add_ciphertexts of two vectors of different lengths raises
C9_Original ==
  (call.op = "add_ciphertexts" /\ Len(call.args[1]) # Len(call.args[2])) => ~ret.ok

\* the outer product of a and b mod q, row after row
RECURSIVE OuterRows(_, _)
OuterRows(a, b) ==
  IF Len(a) = 0 THEN <<>>
  ELSE [j \in 1..Len(b) |-> (Head(a) * b[j]) % q] \o OuterRows(Tail(a), b)

\* the last call multiplied two ciphertexts of length n+1
FullMultiply ==
  /\ call.op = "multiply_ciphertexts"
  /\ Len(call.args[1]) = n + 1 /\ Len(call.args[2]) = n + 1

\* C11: multiply_ciphertexts of two ciphertexts of length n+1 is bootstrap of
\* their flattened outer product mod q and has length n+1; add_ciphertexts
\* returns the plain sum mod q, with no bootstrap
C11_MultiplyBootstraps ==
  /\ FullMultiply =>
       /\ ret.ok
       /\ Len(ret.val) = n + 1
       /\ ret = bootstrap(OuterRows(call.args[1], call.args[2]), keys)
  /\ FullAdd =>
       /\ ret.ok
       /\ \A k \in 1..(n + 1) : ret.val[k] = (call.args[1][k] + call.args[2][k]) % q

\* a product of two different ciphertexts of the stream came back
C11_Witness ==
  /\ FullMultiply /\ call.idx = <<1, 2>> /\ ret.ok
  /\ \E k \in 1..n : ret.val[k] # 0

\* C12: after generate_keys every call leaves the key bundle, the stream of
\* ciphertexts the caller holds and the ciphertexts it was handed as they were
C12_ReadOnly ==
  [][pc # "new" =>
       /\ keys' = keys
       /\ call'.after = call'.args
       /\ (pc = "encrypted" => ciphertexts' = ciphertexts)]_vars

\* a second homomorphic call, handed the key bundle and ciphertexts of the
\* stream, returned
C12_Witness ==
  /\ call.op \in {"multiply_ciphertexts", "bootstrap"} /\ nops = 2 /\ ret.ok
  /\ \A k \in 1..Len(call.idx) : call.idx[k] > 0
  /\ call.after = call.args

\* the reference algorithm of bootstrap on the ciphertext ct, in closed form
RefScaled(x) == ((x * Pow2(bootstrap_precision)) \div q) % Pow2(bootstrap_precision)

RefAcc(ct) ==
  [k \in 1..n |->
     SumSeq([i \in 1..n |-> keys.bootstrap_key[i][k] * RefScaled(ct[i])]) % q]

RefResult(ct) ==
  [k \in 1..n |->
     SumSeq([i \in 1..n |->
       SumSeq([j \in 1..(FloorLog2(q) + 1) |->
         BitOf(RefAcc(ct)[i], j - 1) * keys.eval_key[i][k][j]])]) % q]
  \o <<RefScaled(ct[Len(ct)])>>

\* C14: bootstrap returns [ sum over the set bits (i, j) of acc of
\* eval_key[i, :, j] mod q | v_scaled ], acc the sum of
\* bootstrap_key[i]*u_scaled[i] mod q, and the decomposition of each acc[i]
\* over floor(log2 q)+1 bits is exact
C14_BootstrapReference ==
  (call.op = "bootstrap" /\ Len(call.args[1]) >= n + 1) =>
    /\ ret.ok
    /\ ret.val = RefResult(call.args[1])
    /\ \A i \in 1..n :
         LET d == Decompose(RefAcc(call.args[1])[i], FloorLog2(q) + 1)
         IN  /\ Len(d) = FloorLog2(q) + 1
             /\ SumSeq([j \in 1..Len(d) |-> d[j] * Pow2(j - 1)]) = RefAcc(call.args[1])[i]

\* a bootstrap that skipped a zero u_scaled[i], added for another, and whose
\* accumulator needs the highest bit of the decomposition
C14_Witness ==
  /\ call.op = "bootstrap" /\ Len(call.args[1]) = n + 1 /\ ret.ok
  /\ \E i \in 1..n : RefScaled(call.args[1][i]) = 0
  /\ \E i \in 1..n : RefScaled(call.args[1][i]) # 0
  /\ \E i \in 1..n : RefAcc(call.args[1])[i] >= Pow2(FloorLog2(q))

\* the ciphertext ct with its entries 1..n-1 (0-based) replaced by x
WithMiddle(ct, x) ==
  [k \in 1..Len(ct) |-> IF k > 1 /\ k < Len(ct) THEN x[k - 1] ELSE ct[k]]

\* C15: multiply_ciphertexts(ct1, ct2, keys) returns the same ciphertext for
\* every ct1 that differs from the one passed only in entries 1..n-1
C15_MiddleIgnored ==
  FullMultiply =>
    \A x \in [1..(n - 1) -> 0..(q - 1)] :
      multiply_ciphertexts(WithMiddle(call.args[1], x), call.args[2], keys) = ret

\* a product came back whose first operand has non-zero entries in 1..n-1
C15_Witness ==
  /\ FullMultiply /\ ret.ok
  /\ \A k \in 2..n : call.args[1][k] # 0
  /\ \E k \in 1..(n + 1) : ret.val[k] # 0

\* C10 as stated: encrypt of a text with a character above 255 raises and
\* returns no ciphertexts
C10_Original ==
  (call.op = "encrypt" /\ ~EightBit) => (~ret.ok /\ ciphertexts = <<>>)
\* C13 as stated: verify(message, sign(message)) is True for every message
\* and every ephemeral key sign can choose
C13_Original ==
  (sig.pc = "verified" /\ sig.vmessage = sig.message) => sig.valid
====
